---- MODULE Spec2Model ----
(***************************************************************************)
(* Model of the settlement core of smart-split (src/src/utils/algorithm.ts)*)
(*                                                                         *)
(* Money is a JavaScript number in the source.  The model keeps it in      *)
(* fixed point: an amount is an integer count of thousandths of a currency *)
(* unit (Unit = 1000), so that both roundings of the source, to 2 decimals *)
(* and to whole units, are real conversions that lose information.         *)
(* Arithmetic is exact decimal arithmetic; binary floating-point drift of  *)
(* the source is outside the model.                                        *)
(***************************************************************************)
EXTENDS Integers, Sequences, FiniteSets, TLC

VARIABLES
    members,       \* Member[]   : argument of calculateBalances / getDetailedRawDebts
    expenses,      \* Expense[]  : argument of calculateBalances / getDetailedRawDebts
    balances,      \* BalanceSheet, as its Object.entries sequence of [id, amount]
    debtors,       \* local `debtors` of calculateMinimalTransactions
    creditors,     \* local `creditors` of calculateMinimalTransactions
    i,             \* debtor index (0-based as in the source)
    j,             \* creditor index (0-based as in the source)
    transactions,  \* local / returned `transactions`
    rawDebts,      \* outcome of getDetailedRawDebts: [status, lines]
    pc,            \* position of the caller
    group,         \* App: the current Group of `groups`, as localStorage keeps it
    view,          \* App: `view`, the page the component shows
    deviceId,      \* App: `deviceId`, read from localStorage when the App mounts
    settlementResult,  \* App: `settlementResult`
    explaining,    \* App: handleCalculateSettlement waiting for explainSettlementLogic
    processing,    \* App: a clearing handler waiting (`isProcessingHistory`)
    generated      \* App: number of ids generateId has returned

\* state of the application around the settlement core
appVars == <<group, view, deviceId, settlementResult, explaining, processing, generated>>

\* state of the settlement core
vars_core == <<members, expenses, balances, debtors, creditors, i, j, transactions, rawDebts, pc>>

vars == <<members, expenses, balances, debtors, creditors, i, j, transactions, rawDebts, pc,
          group, view, deviceId, settlementResult, explaining, processing, generated>>

----------------------------------------------------------------------------
(* Bounds of the model *)

\* number of participants of a drawn balance sheet
NumParticipants == 4
\* longest expense list drawn
MaxExpenses == 2
\* longest paidBy / splitAmong list drawn
MaxShares == 2

\* number of participants of a drawn whole-unit balance sheet
NumSettling == 5

----------------------------------------------------------------------------
(* Fixed-point representation *)

\* one currency unit, in thousandths
Unit == 1000
\* 0.01 currency unit, in thousandths: the grid of `round`
Cent == 10
\* 0.01 currency unit, in thousandths: the zero tolerance of the source
Tol == 10

Abs(x) == IF x < 0 THEN -x ELSE x
Min(x, y) == IF x < y THEN x ELSE y

\* Math.round: nearest integer, halves towards +infinity.  n is a count of
\* 1/q, the result a count of whole q.
MathRound(n, q) == (2 * n + q) \div (2 * q)

\* round = (num) => Math.round(num * 100) / 100, on thousandths
round(num) == MathRound(num, Cent) * Cent

----------------------------------------------------------------------------
(* Sequences *)

Range(s) == { s[k] : k \in 1..Len(s) }

RECURSIVE SumSeq(_)
SumSeq(s) == IF s = <<>> THEN 0 ELSE Head(s) + SumSeq(Tail(s))

\* Insert x in front of the first element it compares less than
\* (sign = 1: ascending by amount, sign = -1: descending by amount)
RECURSIVE InsertSorted(_, _, _)
InsertSorted(x, s, sign) ==
    IF s = <<>> THEN <<x>>
    ELSE IF sign * x.amount < sign * Head(s).amount THEN <<x>> \o s
    ELSE <<Head(s)>> \o InsertSorted(x, Tail(s), sign)

\* Array.prototype.sort with the comparators of the source: stable
RECURSIVE StableSort(_, _)
StableSort(s, sign) ==
    IF s = <<>> THEN <<>>
    ELSE InsertSorted(s[Len(s)], StableSort(SubSeq(s, 1, Len(s) - 1), sign), sign)

\* the orders in which n list elements can be walked
Reorderings(n) == { f \in [1..n -> 1..n] : \A a, b \in 1..n : f[a] = f[b] => a = b }

----------------------------------------------------------------------------
(* calculateBalances *)

\* An Expense is modelled by the two fields the core reads,
\* [paidBy, splitAmong], each a sequence of SplitDetail [memberId, amount].
\* A BalanceSheet is the sequence of its [id, amount] entries in key
\* insertion order, the order Object.entries walks.

MemberIds(ms) == { ms[k].id : k \in 1..Len(ms) }
SheetIds(sheet) == { sheet[k].id : k \in 1..Len(sheet) }

\* `balances[id]`, undefined read as 0 by `|| 0`
ValueOf(sheet, id) ==
    IF id \in SheetIds(sheet)
    THEN (CHOOSE e \in Range(sheet) : e.id = id).amount
    ELSE 0

\* variant: the initialisation loop left out
InitialBalancesNone(ms) == <<>>
\* `members.forEach(m => balances[m.id] = 0)`
InitialBalances(ms) == [k \in 1..Len(ms) |-> [id |-> ms[k].id, amount |-> 0]]

\* variant: a missing key is left missing
AddToKnownOnly(sheet, id, delta) ==
    [k \in 1..Len(sheet) |->
        IF sheet[k].id = id
        THEN [id |-> id, amount |-> sheet[k].amount + delta]
        ELSE sheet[k]]

\* `balances[id] = (balances[id] || 0) + delta`: an existing key keeps its
\* place, a missing key is created at the end
AddTo(sheet, id, delta) ==
    IF id \in SheetIds(sheet)
    THEN [k \in 1..Len(sheet) |->
            IF sheet[k].id = id
            THEN [id |-> id, amount |-> sheet[k].amount + delta]
            ELSE sheet[k]]
    ELSE Append(sheet, [id |-> id, amount |-> 0 + delta])

\* variant: the payer share assigned instead of accumulated
CreditOverwrites(sheet, payer) ==
    IF payer.memberId \in SheetIds(sheet)
    THEN [k \in 1..Len(sheet) |->
            IF sheet[k].id = payer.memberId
            THEN [id |-> payer.memberId, amount |-> payer.amount]
            ELSE sheet[k]]
    ELSE Append(sheet, [id |-> payer.memberId, amount |-> payer.amount])
\* line 13, one payer share
Credit(sheet, payer) == AddTo(sheet, payer.memberId, payer.amount)
\* variant: the debtor share added instead of subtracted
DebitAdds(sheet, debtor) ==
    IF debtor.memberId \in SheetIds(sheet)
    THEN [k \in 1..Len(sheet) |->
            IF sheet[k].id = debtor.memberId
            THEN [id |-> debtor.memberId, amount |-> sheet[k].amount + debtor.amount]
            ELSE sheet[k]]
    ELSE Append(sheet, [id |-> debtor.memberId, amount |-> debtor.amount])
\* line 18, one debtor share
Debit(sheet, debtor) == AddTo(sheet, debtor.memberId, 0 - debtor.amount)

RECURSIVE CreditAll(_, _)
CreditAll(sheet, shares) ==
    IF shares = <<>> THEN sheet
    ELSE CreditAll(Credit(sheet, Head(shares)), Tail(shares))

RECURSIVE DebitAll(_, _)
DebitAll(sheet, shares) ==
    IF shares = <<>> THEN sheet
    ELSE DebitAll(Debit(sheet, Head(shares)), Tail(shares))

\* body of `expenses.forEach`
ApplyExpense(sheet, expense) == DebitAll(CreditAll(sheet, expense.paidBy), expense.splitAmong)

RECURSIVE ApplyExpenses(_, _)
ApplyExpenses(sheet, exps) ==
    IF exps = <<>> THEN sheet
    ELSE ApplyExpenses(ApplyExpense(sheet, Head(exps)), Tail(exps))

calculateBalances(exps, ms) == ApplyExpenses(InitialBalances(ms), exps)

\* the caller evaluates calculateBalances(expenses, members)
CalculateBalances ==
    /\ pc = "input"
    /\ balances' = calculateBalances(expenses, members)
    /\ pc' = "balances"
    /\ UNCHANGED <<members, expenses, debtors, creditors, i, j, transactions, rawDebts>>
    /\ UNCHANGED appVars

----------------------------------------------------------------------------
(* Inputs drawn by the specifications *)

\* participant ids of a drawn balance sheet, in key order
ParticipantIds == <<"A", "B", "C", "D", "E", "F">>

\* balances drawn for a sheet, in thousandths: whole units, half units,
\* sub-unit amounts, and amounts off the cent grid
SheetValues == {-3000, -1500, -1000, -400, -15, 0, 15, 400, 1000, 4500}

\* member lists drawn: all three participants, two of them in the other
\* order (participant "C" is then absent from the member list), or nobody
Ann == [id |-> "A", name |-> "Ann"]
Bob == [id |-> "B", name |-> "Bob"]
Cat == [id |-> "C", name |-> "Cat"]
MemberLists == { <<Ann, Bob, Cat>>, <<Bob, Ann>>, <<>> }

\* ids that payer shares and debtor shares refer to
PayerIds == <<"A", "C">>
SplitterIds == <<"A", "B", "C">>
\* amounts of payer shares and of debtor shares, in thousandths
PaidAmounts == {3000}
SplitAmounts == {1500}

\* share lists of 1..MaxShares shares, ids distinct and in the order of ids
ShareLists(ids, amounts) ==
    UNION { { s \in [1..n -> [memberId : Range(ids), amount : amounts]] :
                \A k \in 1..(n - 1) :
                    \E a, b \in 1..Len(ids) :
                        a < b /\ ids[a] = s[k].memberId /\ ids[b] = s[k + 1].memberId }
            : n \in 1..MaxShares }

ExpenseSet == [paidBy : ShareLists(PayerIds, PaidAmounts),
               splitAmong : ShareLists(SplitterIds, SplitAmounts)]

ExpenseLists == UNION { [1..n -> ExpenseSet] : n \in 0..MaxExpenses }

SheetSet == { [k \in 1..NumParticipants |-> [id |-> ParticipantIds[k], amount |-> v[k]]] :
                v \in [1..NumParticipants -> SheetValues] }

\* the sheets of one participant fewer, over the same values
ShortSheetSet == { [k \in 1..(NumParticipants - 1) |-> [id |-> ParticipantIds[k], amount |-> v[k]]] :
                     v \in [1..(NumParticipants - 1) -> SheetValues] }

\* payer lists drawn for getDetailedRawDebts on its own: a single payer, a
\* payer total of 0, and two payers in the ratio 30 : 100
RawPayerLists ==
    { <<[memberId |-> "A", amount |-> 100000]>>,
      <<[memberId |-> "B", amount |-> 100000]>>,
      <<[memberId |-> "B", amount |-> 0]>>,
      <<[memberId |-> "A", amount |-> 30000], [memberId |-> "B", amount |-> 100000]>> }

\* debtor shares drawn with them: 0.01, 30 or 100 units owed by one member
RawSplitAmounts == {10, 30000, 100000}
RawSplitLists == { <<sh>> : sh \in [memberId : Range(SplitterIds), amount : RawSplitAmounts] }

RawExpenseSet == [paidBy : RawPayerLists, splitAmong : RawSplitLists]
RawExpenseLists == UNION { [1..n -> RawExpenseSet] : n \in 0..MaxExpenses }

\* one expense paid entirely by one member and split, with whole-unit
\* shares of 30 or 50, among any non-empty set of members
WholeShareAmounts == {30000, 50000}
WholeShareLists ==
    UNION { { s \in [1..n -> [memberId : Range(SplitterIds), amount : WholeShareAmounts]] :
                \A k \in 1..(n - 1) :
                    \E a, b \in 1..Len(SplitterIds) :
                        a < b /\ SplitterIds[a] = s[k].memberId /\ SplitterIds[b] = s[k + 1].memberId }
            : n \in 1..Len(SplitterIds) }
SinglePayerExpenses ==
    { [paidBy |-> <<[memberId |-> payer, amount |-> SumSeq([k \in 1..Len(shares) |-> shares[k].amount])]>>,
       splitAmong |-> shares] : payer \in Range(SplitterIds), shares \in WholeShareLists }

\* expenses whose payer total equals their debtor total: "A", "B" or both
\* pay 30 or 100 each, and members owe 30 or 100 each
EvenAmounts == {30000, 100000}
EvenExpenseSet ==
    { e \in [paidBy : ShareLists(<<"A", "B">>, EvenAmounts),
             splitAmong : ShareLists(SplitterIds, EvenAmounts)] :
        SumSeq([k \in 1..Len(e.paidBy) |-> e.paidBy[k].amount])
            = SumSeq([k \in 1..Len(e.splitAmong) |-> e.splitAmong[k].amount]) }
EvenExpenseLists == UNION { [1..n -> EvenExpenseSet] : n \in 0..MaxExpenses }

\* every payer list drawn by some specification
PayerLists ==
    ShareLists(PayerIds, PaidAmounts) \cup RawPayerLists
        \cup { e.paidBy : e \in SinglePayerExpenses }
        \cup { e.paidBy : e \in EvenExpenseSet }

\* whole-unit balances drawn for a zero-sum sheet, in thousandths
WholeValues == {-3000, -2000, -1000, 0, 1000, 2000, 4000}

\* every sheet of NumSettling participants over WholeValues that sums to 0
WholeSheetSet ==
    { sheet \in { [k \in 1..NumSettling |-> [id |-> ParticipantIds[k], amount |-> v[k]]] :
                    v \in [1..NumSettling -> WholeValues] } :
        SumSeq([k \in 1..Len(sheet) |-> sheet[k].amount]) = 0 }

----------------------------------------------------------------------------
(* getDetailedRawDebts *)

RECURSIVE Gcd(_, _)
Gcd(a, b) == IF b = 0 THEN a ELSE Gcd(b, a % b)
Lcm(a, b) == IF a = 0 \/ b = 0 THEN 0 ELSE (a * b) \div Gcd(a, b)

\* `exp.paidBy.reduce((sum, p) => sum + p.amount, 0)`
RECURSIVE TotalPaid(_)
TotalPaid(shares) == IF shares = <<>> THEN 0 ELSE Head(shares).amount + TotalPaid(Tail(shares))

\* denominator of the fraction `payer.amount / totalPaid` in lowest terms
Denominator(amount, totalPaid) == totalPaid \div Gcd(amount, totalPaid)

RECURSIVE LcmOf(_)
LcmOf(S) == IF S = {} THEN 1 ELSE LET x == CHOOSE y \in S : TRUE IN Lcm(x, LcmOf(S \ {x}))

\* The matrix holds sums of `splitter.amount * (payer.amount / totalPaid)`.
\* It is kept exactly, as an integer count of 1/MatrixScale thousandths,
\* MatrixScale being a common multiple of the denominators of every
\* fraction payer.amount / totalPaid of the payer lists drawn.
MatrixScale ==
    LcmOf(UNION { { Denominator(shares[k].amount, TotalPaid(shares)) : k \in 1..Len(shares) } :
                    shares \in { l \in PayerLists : TotalPaid(l) # 0 } })

\* `members.forEach(m => { debtMatrix[m.id] = {}; members.forEach(target => ... = 0) })`
ZeroMatrix(ms) == [p \in MemberIds(ms) \X MemberIds(ms) |-> 0]

\* variant: every payer is owed the whole share, whatever they paid
DebtChunkWhole(splitter, payer, totalPaid) == splitter.amount * MatrixScale
\* `splitter.amount * (payer.amount / totalPaid)`, in 1/MatrixScale thousandths
DebtChunk(splitter, payer, totalPaid) ==
    LET g == Gcd(payer.amount, totalPaid)
    IN splitter.amount * (payer.amount \div g) * (MatrixScale \div (totalPaid \div g))

\* variant: a member who is both debtor and payer owes themself as well
AddChunkSelfToo(st, ms, splitter, payer, totalPaid) ==
    IF st.status # "ok" THEN st
    ELSE IF splitter.memberId \notin MemberIds(ms) THEN [st EXCEPT !.status = "TypeError"]
    ELSE IF payer.memberId \notin MemberIds(ms) THEN st
    ELSE [st EXCEPT !.matrix[<<splitter.memberId, payer.memberId>>] =
                        @ + DebtChunk(splitter, payer, totalPaid)]
\* lines 106-111 for one (splitter, payer) pair.  st = [status, matrix].
\* A splitter without a row makes `debtMatrix[splitter.memberId][...]` read
\* a property of undefined: TypeError.  A payer without a column stores NaN
\* under a key that the consolidation never reads: the matrix over the
\* members is unchanged.
AddChunk(st, ms, splitter, payer, totalPaid) ==
    IF st.status # "ok" THEN st
    ELSE IF splitter.memberId = payer.memberId THEN st
    ELSE IF splitter.memberId \notin MemberIds(ms) THEN [st EXCEPT !.status = "TypeError"]
    ELSE IF payer.memberId \notin MemberIds(ms) THEN st
    ELSE [st EXCEPT !.matrix[<<splitter.memberId, payer.memberId>>] =
                        @ + DebtChunk(splitter, payer, totalPaid)]

\* `exp.paidBy.forEach(payer => ...)` for one splitter
RECURSIVE ForEachPayer(_, _, _, _, _)
ForEachPayer(st, ms, splitter, payers, totalPaid) ==
    IF payers = <<>> THEN st
    ELSE ForEachPayer(AddChunk(st, ms, splitter, Head(payers), totalPaid),
                      ms, splitter, Tail(payers), totalPaid)

\* `exp.splitAmong.forEach(splitter => ...)`
RECURSIVE ForEachSplitter(_, _, _, _, _)
ForEachSplitter(st, ms, splitters, payers, totalPaid) ==
    IF splitters = <<>> THEN st
    ELSE ForEachSplitter(ForEachPayer(st, ms, Head(splitters), payers, totalPaid),
                         ms, Tail(splitters), payers, totalPaid)

\* body of `expenses.forEach(exp => ...)`, with the `totalPaid === 0` return
FoldExpense(st, ms, exp) ==
    LET totalPaid == TotalPaid(exp.paidBy)
    IN IF totalPaid = 0 THEN st
       ELSE ForEachSplitter(st, ms, exp.splitAmong, exp.paidBy, totalPaid)

RECURSIVE FoldExpenses(_, _, _)
FoldExpenses(st, ms, exps) ==
    IF exps = <<>> THEN st
    ELSE FoldExpenses(FoldExpense(st, ms, Head(exps)), ms, Tail(exps))

\* lines 82-114: [status, matrix] after every expense is folded in
DebtMatrix(exps, ms) == FoldExpenses([status |-> "ok", matrix |-> ZeroMatrix(ms)], ms, exps)

\* variant: the key built without the sort, one key per ordered pair
PairKeyOrdered(a, b) == <<a.id, b.id>>
\* `[a.id, b.id].sort().join('-')`: one key per unordered pair
PairKey(a, b) == {a.id, b.id}

\* the template literal `${debtor name} 欠 ${creditor name} $${amount}`, as its
\* three variable parts around the fixed word ("owes")
DebtLine(debtorName, creditorName, amount) == <<debtorName, "owes", creditorName, amount>>

\* variant: what a owes b reported without subtracting what b owes a
VisitPairGross(acc, matrix, a, b) ==
    IF a.id = b.id THEN acc
    ELSE IF PairKey(a, b) \in acc.processed THEN acc
    ELSE LET net == matrix[<<a.id, b.id>>]
             whole == MatrixScale * Unit
             results ==
                IF net > Tol * MatrixScale
                THEN Append(acc.results, DebtLine(a.name, b.name, MathRound(net, whole)))
                ELSE IF net < 0 - Tol * MatrixScale
                THEN Append(acc.results, DebtLine(b.name, a.name, MathRound(Abs(net), whole)))
                ELSE acc.results
         IN [results |-> results, processed |-> acc.processed \cup {PairKey(a, b)}]
\* lines 122-135 for one (a, b).  acc = [results, processed].
VisitPair(acc, matrix, a, b) ==
    IF a.id = b.id THEN acc
    ELSE IF PairKey(a, b) \in acc.processed THEN acc
    ELSE LET net == matrix[<<a.id, b.id>>] - matrix[<<b.id, a.id>>]
             whole == MatrixScale * Unit
             results ==
                IF net > Tol * MatrixScale
                THEN Append(acc.results, DebtLine(a.name, b.name, MathRound(net, whole)))
                ELSE IF net < 0 - Tol * MatrixScale
                THEN Append(acc.results, DebtLine(b.name, a.name, MathRound(Abs(net), whole)))
                ELSE acc.results
         IN [results |-> results, processed |-> acc.processed \cup {PairKey(a, b)}]

\* `members.forEach(a => members.forEach(b => ...))`: k runs over the
\* Len(ms) * Len(ms) ordered pairs, row by row
RECURSIVE VisitPairs(_, _, _, _)
VisitPairs(acc, matrix, ms, k) ==
    IF k >= Len(ms) * Len(ms) THEN acc
    ELSE VisitPairs(VisitPair(acc, matrix, ms[(k \div Len(ms)) + 1], ms[(k % Len(ms)) + 1]),
                    matrix, ms, k + 1)

\* lines 117-139
Consolidate(matrix, ms) == VisitPairs([results |-> <<>>, processed |-> {}], matrix, ms, 0).results

\* the outcome of a call: the returned lines, or the exception thrown
getDetailedRawDebts(exps, ms) ==
    LET st == DebtMatrix(exps, ms)
    IN IF st.status = "ok"
       THEN [status |-> "returned", lines |-> Consolidate(st.matrix, ms)]
       ELSE [status |-> st.status, lines |-> <<>>]

\* the caller evaluates getDetailedRawDebts(expenses, members)
GetDetailedRawDebts ==
    /\ pc = "settled"
    /\ rawDebts' = getDetailedRawDebts(expenses, members)
    /\ pc' = "done"
    /\ UNCHANGED <<members, expenses, balances, debtors, creditors, i, j, transactions>>
    /\ UNCHANGED appVars

----------------------------------------------------------------------------
(* calculateMinimalTransactions *)

\* variant: the magnitude compared instead of the signed value
IsDebtorMagnitude(val) == Abs(val) > Tol
\* `val < -0.01`
IsDebtor(val) == val < -Tol
\* `val > 0.01`
IsCreditor(val) == val > Tol

\* Object.entries(balances).forEach: round each amount, keep the entry order
Rounded(sheet) == [k \in 1..Len(sheet) |-> [id |-> sheet[k].id, amount |-> round(sheet[k].amount)]]

IsDebtorEntry(e) == IsDebtor(e.amount)
IsCreditorEntry(e) == IsCreditor(e.amount)

\* variant: the debtors sorted smallest debt first
SortedDebtorsSmallestFirst(sheet) == StableSort(SelectSeq(Rounded(sheet), IsDebtorEntry), -1)
\* debtors after the partition and the sort (most negative first)
SortedDebtors(sheet) == StableSort(SelectSeq(Rounded(sheet), IsDebtorEntry), 1)
\* variant: the creditors sorted smallest credit first
SortedCreditorsSmallestFirst(sheet) == StableSort(SelectSeq(Rounded(sheet), IsCreditorEntry), 1)
\* creditors after the partition and the sort (most positive first)
SortedCreditors(sheet) == StableSort(SelectSeq(Rounded(sheet), IsCreditorEntry), -1)

\* variant: at most one currency unit settled per step
SettleAmountCapped(debtor, creditor) ==
    round(Min(Min(Abs(debtor.amount), creditor.amount), Unit))
\* `round(Math.min(Math.abs(debtor.amount), creditor.amount))`
SettleAmount(debtor, creditor) == round(Min(Abs(debtor.amount), creditor.amount))
\* variant: `Math.floor(amount)`
RoundedAmountFloor(amount) == amount \div Unit
\* `Math.round(amount)`, in whole currency units
RoundedAmount(amount) == MathRound(amount, Unit)
\* variant: the guard written `roundedAmount >= 0`
EmitsZeroToo(roundedAmount) == roundedAmount >= 0
\* `if (roundedAmount > 0)`
Emits(roundedAmount) == roundedAmount > 0

\* variant: `from` and `to` exchanged
MkTransactionReversed(debtor, creditor, roundedAmount) ==
    [from |-> creditor.id, to |-> debtor.id, amount |-> roundedAmount]
\* variant: `to` taken from the debtor
MkTransactionSelf(debtor, creditor, roundedAmount) ==
    [from |-> debtor.id, to |-> debtor.id, amount |-> roundedAmount]
\* the object literal pushed to `transactions`
MkTransaction(debtor, creditor, roundedAmount) ==
    [from |-> debtor.id, to |-> creditor.id, amount |-> roundedAmount]

\* variant: the sign of the debtor's remaining amount not taken off
DebtorSettledNoAbs(amount) == amount < Tol
\* `Math.abs(debtor.amount) < 0.01`
DebtorSettled(amount) == Abs(amount) < Tol
\* `creditor.amount < 0.01`
CreditorSettled(amount) == amount < Tol

\* `while (i < debtors.length && j < creditors.length)`
LoopCond == i < Len(debtors) /\ j < Len(creditors)

\* lines 27-45: partition, sort, empty result, both indices at 0
StartMinimalTransactions ==
    /\ pc = "balances"
    /\ debtors' = SortedDebtors(balances)
    /\ creditors' = SortedCreditors(balances)
    /\ transactions' = <<>>
    /\ i' = 0
    /\ j' = 0
    /\ pc' = "loop"
    /\ UNCHANGED <<members, expenses, balances, rawDebts>>
    /\ UNCHANGED appVars

\* variant: the settled amount is written to the argument sheet as well
MatchStepOnSheet ==
    /\ pc = "loop"
    /\ LoopCond
    /\ LET debtor == debtors[i + 1]
           creditor == creditors[j + 1]
           amount == SettleAmount(debtor, creditor)
           roundedAmount == RoundedAmount(amount)
           debtorLeft == round(debtor.amount + amount)
           creditorLeft == round(creditor.amount - amount)
       IN /\ transactions' = IF Emits(roundedAmount)
                             THEN Append(transactions, MkTransaction(debtor, creditor, roundedAmount))
                             ELSE transactions
          /\ debtors' = [debtors EXCEPT ![i + 1].amount = debtorLeft]
          /\ creditors' = [creditors EXCEPT ![j + 1].amount = creditorLeft]
          /\ balances' = AddTo(AddTo(balances, debtor.id, amount), creditor.id, 0 - amount)
          /\ i' = IF DebtorSettled(debtorLeft) THEN i + 1 ELSE i
          /\ j' = IF CreditorSettled(creditorLeft) THEN j + 1 ELSE j
    /\ UNCHANGED <<members, expenses, rawDebts, pc>>
    /\ UNCHANGED appVars
\* lines 47-72: one iteration of the matching loop
MatchStep ==
    /\ pc = "loop"
    /\ LoopCond
    /\ LET debtor == debtors[i + 1]
           creditor == creditors[j + 1]
           amount == SettleAmount(debtor, creditor)
           roundedAmount == RoundedAmount(amount)
           debtorLeft == round(debtor.amount + amount)
           creditorLeft == round(creditor.amount - amount)
       IN /\ transactions' = IF Emits(roundedAmount)
                             THEN Append(transactions, MkTransaction(debtor, creditor, roundedAmount))
                             ELSE transactions
          /\ debtors' = [debtors EXCEPT ![i + 1].amount = debtorLeft]
          /\ creditors' = [creditors EXCEPT ![j + 1].amount = creditorLeft]
          /\ i' = IF DebtorSettled(debtorLeft) THEN i + 1 ELSE i
          /\ j' = IF CreditorSettled(creditorLeft) THEN j + 1 ELSE j
    /\ UNCHANGED <<members, expenses, balances, rawDebts, pc>>
    /\ UNCHANGED appVars

\* line 74: the loop condition fails, `transactions` is returned
ReturnTransactions ==
    /\ pc = "loop"
    /\ ~LoopCond
    /\ pc' = "settled"
    /\ UNCHANGED <<members, expenses, balances, debtors, creditors, i, j, transactions, rawDebts>>
    /\ UNCHANGED appVars

----------------------------------------------------------------------------
(* The application around the core (App component)                         *)
(*                                                                         *)
(* The model follows one group, the current group of the App.  `groups`    *)
(* and the device id are kept in localStorage and read when the App        *)
(* mounts; the other hooks are state of the mounted component.  Ids are    *)
(* the naturals in the order in which generateId returned them, 0 stands   *)
(* for null, undefined and the empty string.  Titles, dates, the summary   *)
(* and the graph of a history record are carried by the source and read by *)
(* no handler: they are left out.  A handler is called from the page that  *)
(* shows its button: the action has the condition under which the button   *)
(* is rendered and enabled as a guard.  The expense form is opened, filled  *)
(* and submitted in one step.                                              *)

\* number of devices that open the stored group
NumDevices == 2
\* number of ids generateId returns in a run
MaxIds == 4
\* number of members a group is given in a run
MaxMembers == 2

DeviceIds == 1..NumDevices
NoId == 0
NoDevice == 0

\* `currentGroup` undefined
NoGroup == [open |-> FALSE]
\* `settlementResult` null
NoResult == [status |-> "null"]
NotExplaining == [status |-> "idle"]
NotProcessing == [status |-> "idle"]

\* the Group literal of handleCreateGroup
NewGroup ==
    [open |-> TRUE, members |-> <<>>, expenses |-> <<>>, history |-> <<>>,
     deviceBindings |-> <<>>, clearedMemberIds |-> <<>>, activeSettlementId |-> NoId]

\* `generateId()`: an id no earlier call returned
generateId == generated + 1

\* ids of a list of members
IdsOf(ms) == { ms[k].id : k \in 1..Len(ms) }

\* deviceBindings is an object: its keys in insertion order, each with its value
BoundDevices(bindings) == { bindings[k].key : k \in 1..Len(bindings) }
BoundMembers(bindings) == { bindings[k].value : k \in 1..Len(bindings) }
\* `deviceBindings?.[dev] || null`
BindingOf(bindings, dev) ==
    IF dev \in BoundDevices(bindings)
    THEN (CHOOSE b \in Range(bindings) : b.key = dev).value
    ELSE NoId
\* `myMemberId`
myMemberId == IF group = NoGroup THEN NoId ELSE BindingOf(group.deviceBindings, deviceId)

\* `Object.keys(deviceBindings).find(key => deviceBindings[key] === sel)`, 0 for undefined
ExistingDeviceId(bindings, sel) ==
    LET hits == { k \in 1..Len(bindings) : bindings[k].value = sel }
    IN IF hits = {} THEN NoDevice
       ELSE bindings[CHOOSE k \in hits : \A h \in hits : k <= h].key

\* variant: the selection is refused only when this device holds it
TakenElsewhereOwn(bindings, sel, dev) ==
    ExistingDeviceId(bindings, sel) # NoDevice /\ ExistingDeviceId(bindings, sel) = dev
\* `existingDeviceId && existingDeviceId !== deviceId`
TakenElsewhere(bindings, sel, dev) ==
    ExistingDeviceId(bindings, sel) # NoDevice /\ ExistingDeviceId(bindings, sel) # dev

\* `{ ...deviceBindings, [dev]: sel }`
WithBinding(bindings, dev, sel) ==
    IF dev \in BoundDevices(bindings)
    THEN [k \in 1..Len(bindings) |->
             IF bindings[k].key = dev THEN [key |-> dev, value |-> sel] ELSE bindings[k]]
    ELSE Append(bindings, [key |-> dev, value |-> sel])

\* the App mounts on a device and the group is selected: the device id
\* comes from localStorage, the hooks of the component start from their
\* initial values, handleGroupSelect shows the dashboard to a bound device
\* and the identity page to another
Mount(dev) ==
    /\ group # NoGroup
    /\ deviceId' = dev
    /\ view' = IF BindingOf(group.deviceBindings, dev) # NoId THEN "DASHBOARD"
               ELSE "IDENTITY_SETUP"
    /\ settlementResult' = NoResult
    /\ explaining' = NotExplaining
    /\ processing' = NotProcessing
    /\ UNCHANGED <<group, generated>>
    /\ UNCHANGED vars_core

\* handleBindIdentity, `identitySelection` being the id the component holds
handleBindIdentity(identitySelection) ==
    /\ group # NoGroup
    /\ view = "IDENTITY_SETUP"
    /\ identitySelection # NoId
    /\ IF TakenElsewhere(group.deviceBindings, identitySelection, deviceId)
       THEN UNCHANGED <<group, view>>
       ELSE /\ group' = [group EXCEPT !.deviceBindings =
                             WithBinding(group.deviceBindings, deviceId, identitySelection)]
            /\ view' = "DASHBOARD"
    /\ UNCHANGED <<deviceId, settlementResult, explaining, processing, generated>>
    /\ UNCHANGED vars_core

\* names typed into the new-member field
MemberNames == {"", "Ann"}

\* handleAddMember
handleAddMember(newMemberName) ==
    /\ group # NoGroup
    /\ view \in {"IDENTITY_SETUP", "DASHBOARD"}
    /\ newMemberName # ""
    /\ generated < MaxIds
    /\ Len(group.members) < MaxMembers
    /\ group' = [group EXCEPT !.members =
                     Append(group.members, [id |-> generateId, name |-> newMemberName])]
    /\ generated' = generated + 1
    /\ UNCHANGED <<view, deviceId, settlementResult, explaining, processing>>
    /\ UNCHANGED vars_core

\* `e.paidBy.some(p => p.memberId === memberId)` and the same for splitAmong
Pays(e, memberId) == \E k \in 1..Len(e.paidBy) : e.paidBy[k].memberId = memberId
Splits(e, memberId) == \E k \in 1..Len(e.splitAmong) : e.splitAmong[k].memberId = memberId
\* `isPayer`
IsPayer(exps, memberId) == \E k \in 1..Len(exps) : Pays(exps[k], memberId)

\* variant: the old amounts are kept by the remaining splitters
RedistributeKeep(e, memberId) ==
    LET NotDeleted(s) == s.memberId # memberId
    IN [e EXCEPT !.splitAmong = SelectSeq(e.splitAmong, NotDeleted)]
\* lines 222-247: the expense without the deleted splitter; totalAmount is
\* divided by the number of remaining splitters (the amounts of the model
\* are multiples of that number, the division is exact)
Redistribute(e, memberId) ==
    LET NotDeleted(s) == s.memberId # memberId
        remaining == SelectSeq(e.splitAmong, NotDeleted)
        newShare == e.totalAmount \div Len(remaining)
    IN [e EXCEPT !.splitAmong =
           [k \in 1..Len(remaining) |-> [memberId |-> remaining[k].memberId, amount |-> newShare]]]

\* lines 220-248: `g.expenses.map(...).filter(Boolean)`
RECURSIVE ExpensesWithout(_, _)
ExpensesWithout(exps, memberId) ==
    IF exps = <<>> THEN <<>>
    ELSE LET e == Head(exps)
             rest == ExpensesWithout(Tail(exps), memberId)
         IN IF ~Splits(e, memberId) THEN <<e>> \o rest
            ELSE IF \A k \in 1..Len(e.splitAmong) : e.splitAmong[k].memberId = memberId
                 THEN rest
                 ELSE <<Redistribute(e, memberId)>> \o rest

\* handleDeleteMember, `confirmed` being the answer to window.confirm
handleDeleteMember(memberId, confirmed) ==
    /\ group # NoGroup
    /\ view = "DASHBOARD"
    /\ IF IsPayer(group.expenses, memberId) \/ ~confirmed
       THEN UNCHANGED group
       ELSE LET NotDeleted(m) == m.id # memberId
                NotBoundTo(b) == b.value # memberId
            IN group' = [group EXCEPT
                   !.members = SelectSeq(group.members, NotDeleted),
                   !.deviceBindings = SelectSeq(group.deviceBindings, NotBoundTo),
                   !.expenses = ExpensesWithout(group.expenses, memberId)]
    /\ UNCHANGED <<view, deviceId, settlementResult, explaining, processing, generated>>
    /\ UNCHANGED vars_core

\* `0.1`, the tolerance of the form's sums
FormTol == 100
\* the total typed into the form
FormTotal == 60000

\* the entries of a Record<string, number>, as [memberId, amount] in key order
Amounts(entries) == [k \in 1..Len(entries) |-> entries[k].amount]

\* the ids of S in increasing order
RECURSIVE Ascending(_)
Ascending(S) ==
    IF S = {} THEN <<>>
    ELSE LET least == CHOOSE x \in S : \A y \in S : x <= y
         IN <<least>> \o Ascending(S \ {least})

\* entries with the keys of S, each with the amount f gives it
EntriesOf(S, f) == LET ids == Ascending(S) IN [k \in 1..Len(ids) |-> [memberId |-> ids[k], amount |-> f[ids[k]]]]

\* `amounts.every(v => Math.abs(v - amounts[0]) < 0.1)` of openAddExpense
AllEqual(splitAmong) ==
    /\ Len(splitAmong) > 0
    /\ \A k \in 1..Len(splitAmong) : Abs(splitAmong[k].amount - splitAmong[1].amount) < FormTol

\* the form as openAddExpense(expenseToEdit) fills it
OpenedToEdit(expenseToEdit) ==
    [editingExpenseId |-> expenseToEdit.id,
     expTitle |-> "Lunch",
     expAmount |-> expenseToEdit.totalAmount,
     expPayers |-> expenseToEdit.paidBy,
     expSplitters |-> expenseToEdit.splitAmong,
     splitMode |-> IF AllEqual(expenseToEdit.splitAmong) THEN "EQUAL" ELSE "CUSTOM"]
\* the form as openAddExpense() fills it
OpenedToCreate ==
    [editingExpenseId |-> NoId,
     expTitle |-> "",
     expAmount |-> 0,
     expPayers |-> IF myMemberId # NoId THEN <<[memberId |-> myMemberId, amount |-> 0]>>
                   ELSE IF Len(group.members) > 0
                        THEN <<[memberId |-> group.members[1].id, amount |-> 0]>>
                        ELSE <<>>,
     expSplitters |-> [k \in 1..Len(group.members) |-> [memberId |-> group.members[k].id, amount |-> 0]],
     splitMode |-> "EQUAL"]
OpenedForms == { OpenedToCreate } \cup { OpenedToEdit(e) : e \in Range(group.expenses) }

\* what the user makes of the payers of an opened form: left as they are,
\* or the two first members ticked, the first one given the whole amount
PayerInputs(form) ==
    { form.expPayers } \cup
    { EntriesOf({group.members[1].id, group.members[2].id},
                [id \in IdsOf(group.members) |-> IF id = group.members[1].id THEN FormTotal ELSE 0])
      : x \in IF Len(group.members) >= 2 THEN {1} ELSE {} }

\* what the user makes of the splitters: any set of members ticked for an
\* equal split, or two members ticked and given two thirds and one third
SplitterInputs(form) ==
    { [splitMode |-> "EQUAL", expSplitters |-> EntriesOf(S, [id \in S |-> 0])]
      : S \in SUBSET IdsOf(group.members) } \cup
    { [splitMode |-> "CUSTOM",
       expSplitters |-> EntriesOf({p[1], p[2]},
                                  [id \in {p[1], p[2]} |-> IF id = p[1] THEN 40000 ELSE 20000])]
      : p \in { q \in IdsOf(group.members) \X IdsOf(group.members) : q[1] < q[2] } } \cup
    { [splitMode |-> form.splitMode, expSplitters |-> form.expSplitters] }

\* the forms the user can submit: an opened form with a title and the total
\* typed in and the payers and splitters edited, or the new form with the
\* title or the total missing
FilledForms ==
    UNION { { [form EXCEPT !.expTitle = "Lunch", !.expAmount = FormTotal,
                           !.expPayers = payers,
                           !.expSplitters = split.expSplitters, !.splitMode = split.splitMode]
              : payers \in PayerInputs(form), split \in SplitterInputs(form) }
            : form \in OpenedForms }
    \cup { [OpenedToCreate EXCEPT !.expAmount = FormTotal],
           [OpenedToCreate EXCEPT !.expTitle = "Lunch"] }

\* the forms submitted with the payers and splitters left as they were opened
QuickForms ==
    { [form EXCEPT !.expTitle = "Lunch", !.expAmount = FormTotal] : form \in OpenedForms }

\* lines 322-335: the payers of the payload, "refused" after the alert
FinalPayers(form) ==
    LET total == form.expAmount
        currentPayerSum == SumSeq(Amounts(form.expPayers))
    IN IF Len(form.expPayers) = 1 /\ (Abs(currentPayerSum - total) > FormTol \/ currentPayerSum = 0)
       THEN [ok |-> TRUE, list |-> <<[memberId |-> form.expPayers[1].memberId, amount |-> total]>>]
       ELSE IF Abs(currentPayerSum - total) > FormTol
            THEN [ok |-> FALSE, list |-> <<>>]
            ELSE [ok |-> TRUE, list |-> form.expPayers]

\* lines 337-352: the splitters of the payload; the total is divided by the
\* number of splitters (the total of the model is a multiple of it)
FinalSplitters(form) ==
    LET total == form.expAmount
    IN IF form.splitMode = "EQUAL"
       THEN IF Len(form.expSplitters) = 0
            THEN [ok |-> FALSE, list |-> <<>>]
            ELSE [ok |-> TRUE,
                  list |-> [k \in 1..Len(form.expSplitters) |->
                               [memberId |-> form.expSplitters[k].memberId,
                                amount |-> total \div Len(form.expSplitters)]]]
       ELSE IF Abs(SumSeq(Amounts(form.expSplitters)) - total) > FormTol
            THEN [ok |-> FALSE, list |-> <<>>]
            ELSE [ok |-> TRUE, list |-> form.expSplitters]

\* the form passes the checks of handleSaveExpense
Accepted(form) ==
    /\ form.expAmount > 0
    /\ form.expTitle # ""
    /\ FinalPayers(form).ok
    /\ FinalSplitters(form).ok

\* `expensePayload`
ExpensePayload(form) ==
    [id |-> IF form.editingExpenseId # NoId THEN form.editingExpenseId ELSE generateId,
     totalAmount |-> form.expAmount,
     paidBy |-> FinalPayers(form).list,
     splitAmong |-> FinalSplitters(form).list]

\* handleSaveExpense on the form the component holds: the form was opened
\* from the dashboard, and the dashboard is shown again once it is saved
\* (or left, when it is refused)
handleSaveExpense(form) ==
    /\ group # NoGroup
    /\ view = "DASHBOARD"
    /\ IF ~Accepted(form)
       THEN UNCHANGED <<group, generated>>
       ELSE IF form.editingExpenseId # NoId
            THEN /\ group' = [group EXCEPT !.expenses =
                                 [k \in 1..Len(group.expenses) |->
                                     IF group.expenses[k].id = form.editingExpenseId
                                     THEN ExpensePayload(form) ELSE group.expenses[k]]]
                 /\ UNCHANGED generated
            ELSE /\ generated < MaxIds
                 /\ group' = [group EXCEPT !.expenses = Append(group.expenses, ExpensePayload(form))]
                 /\ generated' = generated + 1
    /\ UNCHANGED <<view, deviceId, settlementResult, explaining, processing>>
    /\ UNCHANGED vars_core

\* calculateMinimalTransactions as one call: lines 47-72 repeated from the
\* sorted lists until the loop condition fails (the steps of MatchStep)
RECURSIVE Matching(_, _, _, _, _)
Matching(ds, cs, di, ci, txs) ==
    IF ~(di < Len(ds) /\ ci < Len(cs)) THEN txs
    ELSE LET debtor == ds[di + 1]
             creditor == cs[ci + 1]
             amount == SettleAmount(debtor, creditor)
             roundedAmount == RoundedAmount(amount)
             debtorLeft == round(debtor.amount + amount)
             creditorLeft == round(creditor.amount - amount)
         IN Matching([ds EXCEPT ![di + 1].amount = debtorLeft],
                     [cs EXCEPT ![ci + 1].amount = creditorLeft],
                     IF DebtorSettled(debtorLeft) THEN di + 1 ELSE di,
                     IF CreditorSettled(creditorLeft) THEN ci + 1 ELSE ci,
                     IF Emits(roundedAmount)
                     THEN Append(txs, MkTransaction(debtor, creditor, roundedAmount))
                     ELSE txs)
calculateMinimalTransactions(sheet) ==
    Matching(SortedDebtors(sheet), SortedCreditors(sheet), 0, 0, <<>>)

\* `memberMap.get(id) || id`
NameIn(ms, id) ==
    IF id \in IdsOf(ms) THEN (CHOOSE m \in Range(ms) : m.id = id).name ELSE id
\* `namedTransactions`
Named(txs, ms) ==
    [k \in 1..Len(txs) |->
        [from |-> txs[k].from, to |-> txs[k].to, amount |-> txs[k].amount,
         fromName |-> NameIn(ms, txs[k].from), toName |-> NameIn(ms, txs[k].to)]]

\* `isMyDebtCleared`
isMyDebtCleared ==
    myMemberId # NoId /\ myMemberId \in Range(group.clearedMemberIds)

\* handleCalculateSettlement up to its await: the three functions of the
\* core are called on the group as it is, the result waits for the
\* explanation.  The page offers the button when the group has an active
\* expense and this member has not cleared; one call is followed at a time.
\* When getDetailedRawDebts throws, the call ends there.
StartCalculateSettlement ==
    /\ group # NoGroup
    /\ view = "DASHBOARD"
    /\ group.expenses # <<>>
    /\ ~isMyDebtCleared
    /\ explaining = NotExplaining
    /\ LET sheet == calculateBalances(group.expenses, group.members)
           named == Named(calculateMinimalTransactions(sheet), group.members)
           raw == getDetailedRawDebts(group.expenses, group.members)
           Mine(t) == t.from = myMemberId \/ t.to = myMemberId
       IN explaining' = IF raw.status # "returned" THEN [status |-> "thrown"]
                        ELSE [status |-> "waiting",
                              result |-> [status |-> "set", rawDebts |-> raw.lines,
                                          transactions |-> named, balances |-> sheet,
                                          myTransactions |-> SelectSeq(named, Mine)]]
    /\ view' = "SETTLEMENT"
    /\ UNCHANGED <<group, deviceId, settlementResult, processing, generated>>
    /\ UNCHANGED vars_core

\* handleCalculateSettlement after its await: explainSettlementLogic has
\* answered (it answers with a fixed sentence when the service fails)
FinishCalculateSettlement ==
    /\ explaining # NotExplaining
    /\ settlementResult' = IF explaining.status = "waiting" THEN explaining.result
                           ELSE settlementResult
    /\ explaining' = NotExplaining
    /\ UNCHANGED <<group, view, deviceId, processing, generated>>
    /\ UNCHANGED vars_core

\* the back button of the settlement page
BackToDashboard ==
    /\ view = "SETTLEMENT"
    /\ view' = "DASHBOARD"
    /\ UNCHANGED <<group, deviceId, settlementResult, explaining, processing, generated>>
    /\ UNCHANGED vars_core

\* `currentExpenses.reduce((acc, curr) => acc + curr.totalAmount, 0)`
TotalSpent(exps) == SumSeq([k \in 1..Len(exps) |-> exps[k].totalAmount])

\* handleClearAllDebt up to its await, `confirmed` being the answer to
\* window.confirm: the expenses and the plan are read from the current
\* render.  The button is disabled while isProcessingHistory is set.
StartClearAllDebt(confirmed) ==
    /\ group # NoGroup
    /\ view = "SETTLEMENT"
    /\ explaining = NotExplaining
    /\ settlementResult # NoResult
    /\ processing = NotProcessing
    /\ confirmed
    /\ processing' = [status |-> "archiving",
                      currentExpenses |-> group.expenses,
                      settlementPlan |-> settlementResult.transactions]
    /\ UNCHANGED <<group, view, deviceId, settlementResult, explaining, generated>>
    /\ UNCHANGED vars_core

\* handleClearAllDebt after its await: generateHistoryArtifact has answered
\* (it never rejects).  With no expense the date range throws, the catch
\* block alerts and nothing is written; otherwise the functional update
\* empties the expenses of the group as it then is and pushes the record.
FinishClearAllDebt ==
    /\ processing # NotProcessing
    /\ processing.status = "archiving"
    /\ IF processing.currentExpenses = <<>>
       THEN UNCHANGED <<group, view, settlementResult, generated>>
       ELSE /\ generated < MaxIds
            /\ view' = "DASHBOARD"
            /\ group' = [group EXCEPT
                   !.expenses = <<>>,
                   !.history = <<[id |-> generateId,
                                  expenses |-> processing.currentExpenses,
                                  settlementPlan |-> processing.settlementPlan,
                                  totalSpent |-> TotalSpent(processing.currentExpenses),
                                  isPartial |-> FALSE]>> \o group.history,
                   !.clearedMemberIds = <<>>,
                   !.activeSettlementId = NoId]
            /\ settlementResult' = NoResult
            /\ generated' = generated + 1
    /\ processing' = NotProcessing
    /\ UNCHANGED <<deviceId, explaining>>
    /\ UNCHANGED vars_core

\* handleClearMyDebt (the earlier App) up to its await, `confirmed` being
\* the answer to window.confirm: this member's transactions are read from
\* the current render.  The button is disabled while isProcessingHistory is
\* set and when the member has no transaction.
StartClearMyDebt(confirmed) ==
    /\ group # NoGroup
    /\ view = "SETTLEMENT"
    /\ explaining = NotExplaining
    /\ settlementResult # NoResult
    /\ myMemberId # NoId
    /\ processing = NotProcessing
    /\ settlementResult.myTransactions # <<>>
    /\ confirmed
    /\ processing' = [status |-> "clearing",
                      myTxns |-> settlementResult.myTransactions,
                      myMemberId |-> myMemberId]
    /\ UNCHANGED <<group, view, deviceId, settlementResult, explaining, generated>>
    /\ UNCHANGED vars_core

\* `updatedHistory.find(h => h.id === g.activeSettlementId)`: its position, 0 for undefined
ActiveRecordAt(g) ==
    LET hits == { k \in 1..Len(g.history) : g.history[k].id = g.activeSettlementId }
    IN IF hits = {} THEN 0 ELSE CHOOSE k \in hits : \A h \in hits : k <= h

\* the record literal of a settlement session that starts
NewSession(id) ==
    [id |-> id, expenses |-> <<>>, settlementPlan |-> <<>>, totalSpent |-> 0, isPartial |-> TRUE]

\* handleClearMyDebt after its await (a timer): the functional update on the
\* group as it then is
FinishClearMyDebt ==
    /\ processing # NotProcessing
    /\ processing.status = "clearing"
    /\ LET found == ActiveRecordAt(group)
           fresh == found = 0 /\ group.activeSettlementId = NoId
           activeHistoryRecord ==
               IF found # 0 THEN group.history[found]
               ELSE NewSession(IF group.activeSettlementId # NoId
                               THEN group.activeSettlementId ELSE generateId)
           updatedHistory ==
               IF found # 0 THEN group.history ELSE <<activeHistoryRecord>> \o group.history
           newPlan == activeHistoryRecord.settlementPlan \o processing.myTxns
           updatedCleared == Append(group.clearedMemberIds, processing.myMemberId)
           isEveryoneCleared == IdsOf(group.members) \subseteq Range(updatedCleared)
           finalRecord ==
               IF isEveryoneCleared
               THEN [activeHistoryRecord EXCEPT
                        !.isPartial = FALSE,
                        !.expenses = group.expenses,
                        !.totalSpent = TotalSpent(group.expenses),
                        !.settlementPlan = newPlan]
               ELSE [activeHistoryRecord EXCEPT !.settlementPlan = newPlan]
       IN /\ fresh => generated < MaxIds
          /\ group' = [group EXCEPT
                 !.expenses = IF isEveryoneCleared THEN <<>> ELSE group.expenses,
                 !.history = [updatedHistory EXCEPT ![1] = finalRecord],
                 !.clearedMemberIds = IF isEveryoneCleared THEN <<>> ELSE updatedCleared,
                 !.activeSettlementId = IF isEveryoneCleared THEN NoId ELSE activeHistoryRecord.id]
          /\ generated' = IF fresh THEN generated + 1 ELSE generated
    /\ settlementResult' = NoResult
    /\ view' = "DASHBOARD"
    /\ processing' = NotProcessing
    /\ UNCHANGED <<deviceId, explaining>>
    /\ UNCHANGED vars_core

----------------------------------------------------------------------------
(* Specifications *)

NoRawDebts == [status |-> "none", lines |-> <<>>]

\* the application is not part of the run: no group is open
AppIdle ==
    /\ group = NoGroup
    /\ view = "DASHBOARD"
    /\ deviceId = NoDevice
    /\ settlementResult = NoResult
    /\ explaining = NotExplaining
    /\ processing = NotProcessing
    /\ generated = 0

\* the caller holds an expense list and a member list and computes, in the
\* order of the application, balances, transactions and raw debts
Init ==
    /\ members \in MemberLists
    /\ expenses \in ExpenseLists
    /\ balances = <<>>
    /\ debtors = <<>>
    /\ creditors = <<>>
    /\ i = 0
    /\ j = 0
    /\ transactions = <<>>
    /\ rawDebts = NoRawDebts
    /\ pc = "input"
    /\ AppIdle

Next ==
    \/ CalculateBalances
    \/ StartMinimalTransactions
    \/ MatchStep
    \/ ReturnTransactions
    \/ GetDetailedRawDebts

Spec == Init /\ [][Next]_vars

\* calculateMinimalTransactions on a drawn balance sheet
InitSheet ==
    /\ members = <<>>
    /\ expenses = <<>>
    /\ balances \in SheetSet
    /\ debtors = <<>>
    /\ creditors = <<>>
    /\ i = 0
    /\ j = 0
    /\ transactions = <<>>
    /\ rawDebts = NoRawDebts
    /\ pc = "balances"
    /\ AppIdle

NextSheet ==
    \/ StartMinimalTransactions
    \/ MatchStep
    \/ ReturnTransactions

SpecSheet == InitSheet /\ [][NextSheet]_vars

\* calculateMinimalTransactions on a drawn balance sheet whose values sum to
\* 0, as the sheets computed from consistent expenses do
InitBalancedSheet ==
    /\ InitSheet
    /\ SumSeq([k \in 1..Len(balances) |-> balances[k].amount]) = 0

SpecBalancedSheet == InitBalancedSheet /\ [][NextSheet]_vars

\* calculateMinimalTransactions on a drawn zero-sum sheet of whole units
InitWholeSheet ==
    /\ members = <<>>
    /\ expenses = <<>>
    /\ balances \in WholeSheetSet
    /\ debtors = <<>>
    /\ creditors = <<>>
    /\ i = 0
    /\ j = 0
    /\ transactions = <<>>
    /\ rawDebts = NoRawDebts
    /\ pc = "balances"
    /\ AppIdle

SpecWholeSheet == InitWholeSheet /\ [][NextSheet]_vars

\* getDetailedRawDebts called on its own, on a drawn expense list and the
\* three members
InitRawDebts ==
    /\ members = <<Ann, Bob, Cat>>
    /\ expenses \in RawExpenseLists
    /\ balances = <<>>
    /\ debtors = <<>>
    /\ creditors = <<>>
    /\ i = 0
    /\ j = 0
    /\ transactions = <<>>
    /\ rawDebts = NoRawDebts
    /\ pc = "settled"
    /\ AppIdle

NextRawDebts == GetDetailedRawDebts

SpecRawDebts == InitRawDebts /\ [][NextRawDebts]_vars

\* the three functions called in sequence on one single-payer expense, for
\* three orders of the three members
InitSinglePayer ==
    /\ members \in { <<Ann, Bob, Cat>>, <<Cat, Bob, Ann>>, <<Bob, Cat, Ann>> }
    /\ expenses \in { <<e>> : e \in SinglePayerExpenses }
    /\ balances = <<>>
    /\ debtors = <<>>
    /\ creditors = <<>>
    /\ i = 0
    /\ j = 0
    /\ transactions = <<>>
    /\ rawDebts = NoRawDebts
    /\ pc = "input"
    /\ AppIdle

SpecSinglePayer == InitSinglePayer /\ [][Next]_vars

\* calculateMinimalTransactions on a drawn sheet of one participant fewer.
\* The function is synchronous code: a step that can be taken is taken.
InitShortSheet ==
    /\ members = <<>>
    /\ expenses = <<>>
    /\ balances \in ShortSheetSet
    /\ debtors = <<>>
    /\ creditors = <<>>
    /\ i = 0
    /\ j = 0
    /\ transactions = <<>>
    /\ rawDebts = NoRawDebts
    /\ pc = "balances"
    /\ AppIdle

FairSpecShortSheet == InitShortSheet /\ [][NextSheet]_vars /\ WF_vars(NextSheet)

\* the three functions called in sequence on a drawn list of expenses whose
\* payer total equals their debtor total, all participants being members
InitEvenExpenses ==
    /\ members = <<Ann, Bob, Cat>>
    /\ expenses \in EvenExpenseLists
    /\ balances = <<>>
    /\ debtors = <<>>
    /\ creditors = <<>>
    /\ i = 0
    /\ j = 0
    /\ transactions = <<>>
    /\ rawDebts = NoRawDebts
    /\ pc = "input"
    /\ AppIdle

SpecEvenExpenses == InitEvenExpenses /\ [][Next]_vars

\* the settlement core is not part of the run
CoreIdle ==
    /\ members = <<>>
    /\ expenses = <<>>
    /\ balances = <<>>
    /\ debtors = <<>>
    /\ creditors = <<>>
    /\ i = 0
    /\ j = 0
    /\ transactions = <<>>
    /\ rawDebts = NoRawDebts
    /\ pc = "input"

\* a group as handleCreateGroup leaves it, opened on some device
InitNewGroup ==
    /\ CoreIdle
    /\ group = NewGroup
    /\ view = "IDENTITY_SETUP"
    /\ deviceId \in DeviceIds
    /\ settlementResult = NoResult
    /\ explaining = NotExplaining
    /\ processing = NotProcessing
    /\ generated = 0

\* members come and go and devices bind to them; the selection held by the
\* component is any id a member of the group has had
NextBinding ==
    \/ \E dev \in DeviceIds : Mount(dev)
    \/ \E identitySelection \in 0..generated : handleBindIdentity(identitySelection)
    \/ \E newMemberName \in MemberNames : handleAddMember(newMemberName)
    \/ \E memberId \in IdsOf(group.members), confirmed \in BOOLEAN :
           handleDeleteMember(memberId, confirmed)

SpecBinding == InitNewGroup /\ [][NextBinding]_vars

\* a group that was given members and has no expense yet, on the dashboard
\* of a device bound to the first member
InitDashboard ==
    /\ CoreIdle
    /\ deviceId \in DeviceIds
    /\ \E n \in 1..MaxMembers :
          /\ group = [NewGroup EXCEPT
                 !.members = [k \in 1..n |-> [id |-> k, name |-> "Ann"]],
                 !.deviceBindings = <<[key |-> deviceId, value |-> 1]>>]
          /\ generated = n
    /\ view = "DASHBOARD"
    /\ settlementResult = NoResult
    /\ explaining = NotExplaining
    /\ processing = NotProcessing

\* members are added and deleted and expenses are saved
NextExpenses ==
    \/ \E newMemberName \in MemberNames : handleAddMember(newMemberName)
    \/ \E form \in FilledForms : handleSaveExpense(form)
    \/ \E memberId \in IdsOf(group.members), confirmed \in BOOLEAN :
           handleDeleteMember(memberId, confirmed)

SpecExpenses == InitDashboard /\ [][NextExpenses]_vars

\* expenses are saved, the settlement is computed and the group is archived
NextArchive ==
    \/ \E form \in QuickForms : handleSaveExpense(form)
    \/ StartCalculateSettlement
    \/ FinishCalculateSettlement
    \/ BackToDashboard
    \/ \E confirmed \in BOOLEAN : StartClearAllDebt(confirmed)
    \/ FinishClearAllDebt

SpecArchive == InitDashboard /\ [][NextArchive]_vars

\* the earlier App: members are added, devices bind to them, expenses are
\* saved, and each member computes the settlement and clears its own debt
NextClearing ==
    \/ \E dev \in DeviceIds : Mount(dev)
    \/ \E newMemberName \in MemberNames : handleAddMember(newMemberName)
    \/ \E identitySelection \in IdsOf(group.members) : handleBindIdentity(identitySelection)
    \/ \E form \in QuickForms : handleSaveExpense(form)
    \/ StartCalculateSettlement
    \/ FinishCalculateSettlement
    \/ BackToDashboard
    \/ \E confirmed \in BOOLEAN : StartClearMyDebt(confirmed)
    \/ FinishClearMyDebt

SpecClearing == InitNewGroup /\ [][NextClearing]_vars

TypeOK ==
    /\ pc \in {"input", "balances", "loop", "settled", "done"}
    /\ i \in 0..Len(debtors)
    /\ j \in 0..Len(creditors)

----------------------------------------------------------------------------
(* Vocabulary of the properties *)

\* calculateBalances has just returned `balances`
Computed == pc = "balances"
\* calculateMinimalTransactions has just returned `transactions`
Settled == pc = "settled"

\* sum of f[k] over the indices k in S
RECURSIVE SumOver(_, _)
SumOver(f, S) ==
    IF S = {} THEN 0
    ELSE LET k == CHOOSE x \in S : TRUE IN f[k] + SumOver(f, S \ {k})

\* total of the amounts of the shares of `shares` that name id
ShareTotal(shares, id) ==
    SumOver([k \in 1..Len(shares) |-> shares[k].amount],
            { k \in 1..Len(shares) : shares[k].memberId = id })

\* total over the expense list of what id paid, and of what id owes
PaidTotal(exps, id) == SumOver([k \in 1..Len(exps) |-> ShareTotal(exps[k].paidBy, id)], 1..Len(exps))
OwedTotal(exps, id) == SumOver([k \in 1..Len(exps) |-> ShareTotal(exps[k].splitAmong, id)], 1..Len(exps))

\* ids named by some share of the expense list
ReferencedIds(exps) ==
    UNION { { e.paidBy[k].memberId : k \in 1..Len(e.paidBy) } \cup
            { e.splitAmong[k].memberId : k \in 1..Len(e.splitAmong) } : e \in Range(exps) }

\* the sheet as a mapping id -> amount
SheetMap(sheet) == [id \in SheetIds(sheet) |-> ValueOf(sheet, id)]

\* the expense list without the shares whose memberId is not a member
KnownShares(shares, ms) == SelectSeq(shares, LAMBDA sh : sh.memberId \in MemberIds(ms))
KnownOnly(exps, ms) ==
    [k \in 1..Len(exps) |-> [paidBy |-> KnownShares(exps[k].paidBy, ms),
                             splitAmong |-> KnownShares(exps[k].splitAmong, ms)]]

\* whole units paid by id, and received by id, in a transaction list
PaidOut(txs, id) ==
    SumOver([k \in 1..Len(txs) |-> txs[k].amount], { k \in 1..Len(txs) : txs[k].from = id })
Received(txs, id) ==
    SumOver([k \in 1..Len(txs) |-> txs[k].amount], { k \in 1..Len(txs) : txs[k].to = id })

\* balance of id after the transactions are applied to the sheet: a payment
\* settles that much of the payer's debt and of the payee's credit
Residual(sheet, txs, id) ==
    ValueOf(sheet, id) + Unit * PaidOut(txs, id) - Unit * Received(txs, id)

SheetTotal(sheet) == SumOver([k \in 1..Len(sheet) |-> sheet[k].amount], 1..Len(sheet))

\* rounded input balance of id
RoundedValue(sheet, id) == round(ValueOf(sheet, id))
WithinTolerance(val) == -Tol <= val /\ val <= Tol

----------------------------------------------------------------------------
(* Properties of calculateMinimalTransactions *)

\* C1 - Settlement completeness: applying the returned transactions to the
\* original sheet leaves every participant within 1 currency unit of zero.
C1_SettlementCompleteness ==
    Settled => \A id \in SheetIds(balances) : Abs(Residual(balances, transactions, id)) <= Unit

\* C2 as claimed - the returned list is empty if and only if every balance,
\* rounded to 2 decimals, lies between -0.01 and +0.01.
C2_EmptyIffWithinTolerance ==
    Settled =>
        (transactions = <<>> <=>
            \A id \in SheetIds(balances) : WithinTolerance(RoundedValue(balances, id)))

HasHalfUnitDebtor(sheet) == \E id \in SheetIds(sheet) : 2 * RoundedValue(sheet, id) <= 0 - Unit
HasHalfUnitCreditor(sheet) == \E id \in SheetIds(sheet) : 2 * RoundedValue(sheet, id) >= Unit

\* C2 as amended - the returned list is empty if and only if no balance,
\* rounded to 2 decimals, is <= -0.50 or none is >= +0.50; so it is empty
\* whenever every balance is within the zero tolerance, and also for
\* sub-unit and one-sided sheets.
C2_EmptyIffNoHalfUnitPair ==
    Settled =>
        /\ transactions = <<>> <=> ~(HasHalfUnitDebtor(balances) /\ HasHalfUnitCreditor(balances))
        /\ (\A id \in SheetIds(balances) : WithinTolerance(RoundedValue(balances, id)))
              => transactions = <<>>

\* an empty result for a sheet that has a debtor and a creditor outside the
\* tolerance
C2_Witness ==
    /\ pc = "settled"
    /\ transactions = <<>>
    /\ \E a, b \in SheetIds(balances) :
          IsDebtor(RoundedValue(balances, a)) /\ IsCreditor(RoundedValue(balances, b))

\* the step emits a transaction
EmitStep == Len(transactions') > Len(transactions)

\* C8 - Directional correctness: in every returned transaction `from` has a
\* rounded input balance < -0.01 and `to` one > +0.01, so a participant
\* within the tolerance is in no transaction; and when a transaction is
\* emitted, the matched debtor's remaining balance is < -0.01, the matched
\* creditor's is > +0.01, and the payment goes from that debtor to that
\* creditor.
C8_DirectionalCorrectness ==
    /\ [](\A k \in 1..Len(transactions) :
            /\ RoundedValue(balances, transactions[k].from) < 0 - Tol
            /\ RoundedValue(balances, transactions[k].to) > Tol)
    /\ [](\A id \in SheetIds(balances) :
            WithinTolerance(RoundedValue(balances, id)) =>
                \A k \in 1..Len(transactions) :
                    transactions[k].from # id /\ transactions[k].to # id)
    /\ [][EmitStep =>
            /\ debtors[i + 1].amount < 0 - Tol
            /\ creditors[j + 1].amount > Tol
            /\ transactions'[Len(transactions')].from = debtors[i + 1].id
            /\ transactions'[Len(transactions')].to = creditors[j + 1].id]_vars

\* two payments returned for a sheet that also holds a non-zero balance
\* within the tolerance
C8_Witness ==
    /\ pc = "settled"
    /\ Len(transactions) >= 2
    /\ \E k \in 1..Len(balances) :
          balances[k].amount # 0 /\ WithinTolerance(round(balances[k].amount))

\* the matching step at hand settles an amount that rounds to 0 whole units
ZeroStep ==
    /\ pc = "loop"
    /\ LoopCond
    /\ 2 * round(Min(Abs(debtors[i + 1].amount), creditors[j + 1].amount)) < Unit

\* C9 - every returned transaction has a whole amount of at least 1, and a
\* matching step whose whole amount is 0 emits nothing.
C9_PositiveAmounts ==
    /\ [](\A k \in 1..Len(transactions) :
            transactions[k].amount \in Nat /\ transactions[k].amount >= 1)
    /\ [][ZeroStep => transactions' = transactions]_vars

\* two debtors and two creditors all matched, one payment returned: some
\* step was suppressed
C9_Witness ==
    /\ pc = "settled"
    /\ Len(debtors) = 2 /\ i = 2
    /\ Len(creditors) = 2 /\ j = 2
    /\ Len(transactions) = 1

\* C10 - No self-payment: no returned transaction has from = to.
C10_NoSelfPayment ==
    \A k \in 1..Len(transactions) : transactions[k].from # transactions[k].to

\* three payments returned
C10_Witness ==
    /\ pc = "settled"
    /\ Len(transactions) >= 3

\* participants whose rounded balance is outside the -0.01..+0.01 band
NonZeroIds(sheet) == { id \in SheetIds(sheet) : ~WithinTolerance(RoundedValue(sheet, id)) }

\* C11 - for a sheet with at least one non-zero participant, the number of
\* returned transactions is at most the number of non-zero participants - 1.
C11_AtMostNonZeroMinusOne ==
    (Settled /\ NonZeroIds(balances) # {}) =>
        Len(transactions) <= Cardinality(NonZeroIds(balances)) - 1

\* the bound is met: three payments among four non-zero participants
C11_Witness ==
    /\ pc = "settled"
    /\ Cardinality(NonZeroIds(balances)) = 4
    /\ Len(transactions) = 3

\* ids named by a transaction list
TransactingIds(txs) == { txs[k].from : k \in 1..Len(txs) } \cup { txs[k].to : k \in 1..Len(txs) }

\* total of the rounded balances below the band, and above it
TotalDebt(sheet) ==
    SumOver([k \in 1..Len(sheet) |-> Abs(round(sheet[k].amount))],
            { k \in 1..Len(sheet) : round(sheet[k].amount) < 0 - Tol })
TotalCredit(sheet) ==
    SumOver([k \in 1..Len(sheet) |-> round(sheet[k].amount)],
            { k \in 1..Len(sheet) : round(sheet[k].amount) > Tol })

\* C18 - Inconsistent input: the matching ends when the debtor list or the
\* creditor list is exhausted and nothing is matched after that; a debtor or
\* creditor the pointers never reached keeps its whole balance and is in no
\* transaction; a sheet with no debtor or with no creditor yields an empty
\* list.
C18_UnmatchedRemainderDropped ==
    /\ [](Settled => (i = Len(debtors) \/ j = Len(creditors)))
    /\ [][(pc = "loop" /\ ~LoopCond) =>
            (transactions' = transactions /\ debtors' = debtors /\ creditors' = creditors)]_vars
    /\ [](Settled =>
            /\ \A k \in (i + 2)..Len(debtors) :
                  /\ debtors[k].amount = RoundedValue(balances, debtors[k].id)
                  /\ debtors[k].id \notin TransactingIds(transactions)
            /\ \A k \in (j + 2)..Len(creditors) :
                  /\ creditors[k].amount = RoundedValue(balances, creditors[k].id)
                  /\ creditors[k].id \notin TransactingIds(transactions))
    /\ []((Settled /\ ((\A id \in SheetIds(balances) : RoundedValue(balances, id) >= 0 - Tol)
                        \/ (\A id \in SheetIds(balances) : RoundedValue(balances, id) <= Tol)))
              => transactions = <<>>)

\* debt and credit differ, the creditors are exhausted after a payment and a
\* debtor was never reached
C18_Witness ==
    /\ pc = "settled"
    /\ TotalDebt(balances) # TotalCredit(balances)
    /\ transactions # <<>>
    /\ j = Len(creditors)
    /\ i + 2 <= Len(debtors)

\* the matching step at hand, and the amount it settles
AtMatch == pc = "loop" /\ LoopCond
Settling == Min(Abs(debtors[i + 1].amount), creditors[j + 1].amount)

\* C20 - Sub-unit drop: a matching step that settles less than 0.5 emits no
\* transaction, one that settles 0.5 or more emits one, and in both cases
\* both remaining amounts are reduced by the settled amount.
C20_SubUnitDrop ==
    [][AtMatch =>
        /\ (2 * Settling < Unit) => (transactions' = transactions)
        /\ (2 * Settling >= Unit) =>
              (EmitStep /\ transactions'[Len(transactions')].amount >= 1)
        /\ debtors'[i + 1].amount = debtors[i + 1].amount + Settling
        /\ creditors'[j + 1].amount = creditors[j + 1].amount - Settling]_vars

\* payments were returned, yet a participant outside the tolerance whose
\* balance was matched to the end is in none of them
C20_Witness ==
    /\ pc = "settled"
    /\ transactions # <<>>
    /\ \E k \in 1..Len(debtors) :
          /\ k <= i
          /\ debtors[k].id \notin TransactingIds(transactions)

\* Fewest payments that zero every balance of a zero-sum set S of
\* participants.  The payments of any settling set link the participants
\* into groups that each sum to 0, and a group of k participants needs at
\* least k - 1 payments and can be settled with k - 1 (a chain); so the
\* fewest is |S| minus the largest number of zero-sum groups S splits into.
RECURSIVE MostZeroSumGroups(_, _)
MostZeroSumGroups(sheet, S) ==
    IF S = {} THEN 0
    ELSE LET x == CHOOSE id \in S : TRUE
             groups == { T \in SUBSET S :
                           /\ x \in T
                           /\ SumOver([id \in T |-> ValueOf(sheet, id)], T) = 0 }
             counts == { 1 + MostZeroSumGroups(sheet, S \ T) : T \in groups }
         IN CHOOSE n \in counts : \A m \in counts : m <= n

MinTransfers(sheet) ==
    Cardinality(NonZeroIds(sheet)) - MostZeroSumGroups(sheet, NonZeroIds(sheet))

DebtorIds(sheet) == { id \in SheetIds(sheet) : IsDebtor(RoundedValue(sheet, id)) }
CreditorIds(sheet) == { id \in SheetIds(sheet) : IsCreditor(RoundedValue(sheet, id)) }

\* C12 (as stated) - for every zero-sum sheet of whole units, no set of
\* fewer payments than the returned one settles all balances.
C12_GreedyIsMinimal ==
    Settled => Len(transactions) <= MinTransfers(balances)

\* C12 (amended) - for every zero-sum sheet of whole units the returned
\* payments zero every balance, and their number is the smallest possible
\* whenever at most four participants have a non-zero balance or there is a
\* single debtor or a single creditor.
C12_MinimalUpToFour ==
    Settled =>
        /\ \A id \in SheetIds(balances) : Residual(balances, transactions, id) = 0
        /\ (\/ Cardinality(NonZeroIds(balances)) <= 4
            \/ Cardinality(DebtorIds(balances)) <= 1
            \/ Cardinality(CreditorIds(balances)) <= 1)
              => Len(transactions) = MinTransfers(balances)

\* two debtor-creditor pairs of equal size among four participants, settled
\* with the two payments that are the fewest possible
C12_Witness ==
    /\ pc = "settled"
    /\ Cardinality(NonZeroIds(balances)) = 4
    /\ Cardinality(DebtorIds(balances)) = 2
    /\ MinTransfers(balances) = 2
    /\ Len(transactions) = 2

\* C21 - Termination of the matching loop: every iteration advances the
\* debtor pointer exactly when the debtor's remaining amount reached zero and
\* the creditor pointer exactly when the creditor's reached zero, and at
\* least one of the two (both when both reached zero); a pointer never rests
\* on a remaining amount of zero and never passes the end of its list, so
\* i + j grows with every iteration up to debtors + creditors - 1 at most;
\* the loop ends and the list is returned.
C21_LoopTerminates ==
    /\ [][AtMatch =>
            /\ i' = (IF debtors'[i + 1].amount = 0 THEN i + 1 ELSE i)
            /\ j' = (IF creditors'[j + 1].amount = 0 THEN j + 1 ELSE j)
            /\ i' + j' > i + j
            /\ pc' = "loop"]_vars
    /\ [](pc = "loop" =>
            /\ i <= Len(debtors) /\ j <= Len(creditors)
            /\ i < Len(debtors) => debtors[i + 1].amount # 0
            /\ j < Len(creditors) => creditors[j + 1].amount # 0
            /\ LoopCond => i + j <= Len(debtors) + Len(creditors) - 2)
    /\ <>(pc = "settled")

\* the loop has ended with both pointers past every entry after two
\* iterations, the last of which advanced both at once
C21_Witness ==
    /\ pc = "settled"
    /\ Len(debtors) = 2
    /\ Len(creditors) = 1
    /\ i = 2
    /\ j = 1
    /\ Len(transactions) = 2

\* C22 - Processing order: the debtor list is walked from the most negative
\* initial balance to the least negative and the creditor list from the
\* largest to the smallest, the initial balance being the balance rounded to
\* 2 decimals that the function sorts by; so in the transaction list the
\* `from` participants are in non-decreasing and the `to` participants in
\* non-increasing order of initial balance, and the first iteration matches
\* the most negative debtor with the largest creditor.
C22_ProcessingOrder ==
    /\ [](pc \in {"loop", "settled"} =>
            /\ \A k, l \in 1..Len(debtors) :
                  k < l => RoundedValue(balances, debtors[k].id) <= RoundedValue(balances, debtors[l].id)
            /\ \A k, l \in 1..Len(creditors) :
                  k < l => RoundedValue(balances, creditors[k].id) >= RoundedValue(balances, creditors[l].id)
            /\ \A k, l \in 1..Len(transactions) :
                  k < l =>
                     /\ RoundedValue(balances, transactions[k].from)
                           <= RoundedValue(balances, transactions[l].from)
                     /\ RoundedValue(balances, transactions[k].to)
                           >= RoundedValue(balances, transactions[l].to))
    /\ [][(AtMatch /\ i = 0 /\ j = 0 /\ transactions = <<>>
              /\ debtors[1].amount = RoundedValue(balances, debtors[1].id)
              /\ creditors[1].amount = RoundedValue(balances, creditors[1].id)) =>
            /\ \A id \in SheetIds(balances) :
                  /\ RoundedValue(balances, debtors[1].id) <= RoundedValue(balances, id)
                  /\ RoundedValue(balances, creditors[1].id) >= RoundedValue(balances, id)
            /\ debtors'[1].amount = debtors[1].amount + Settling
            /\ creditors'[1].amount = creditors[1].amount - Settling
            /\ \A k \in 1..Len(transactions') :
                  transactions'[k].from = debtors[1].id /\ transactions'[k].to = creditors[1].id]_vars

\* two debtors and two creditors of four different initial balances: the
\* larger debtor pays first, and the larger creditor is the one paid
C22_Witness ==
    /\ pc = "settled"
    /\ Len(transactions) = 2
    /\ Len(creditors) = 2
    /\ RoundedValue(balances, transactions[1].from) < RoundedValue(balances, transactions[2].from)
    /\ RoundedValue(balances, creditors[1].id) > RoundedValue(balances, creditors[2].id)
    /\ transactions[1].to = creditors[1].id

\* C23 - Exact settlement on integer input: for a sheet of whole-unit
\* balances that sum to 0, the returned payments, applied to the sheet, leave
\* every balance exactly 0.
C23_ExactOnIntegers ==
    Settled =>
        /\ \A id \in SheetIds(balances) :
              ValueOf(balances, id) = Unit * Received(transactions, id) - Unit * PaidOut(transactions, id)
        /\ i = Len(debtors)
        /\ j = Len(creditors)

\* five non-zero participants settled to zero by four payments
C23_Witness ==
    /\ pc = "settled"
    /\ Cardinality(NonZeroIds(balances)) = 5
    /\ Len(transactions) = 4
    /\ \A id \in SheetIds(balances) : Residual(balances, transactions, id) = 0

\* C26 - the returned list holds each ordered (from, to) pair at most once,
\* and never a pair together with its reverse: two participants are
\* connected by at most one payment.
C26_OnePaymentPerPair ==
    Settled =>
        \A k, l \in 1..Len(transactions) :
            k # l => {transactions[k].from, transactions[k].to} # {transactions[l].from, transactions[l].to}

\* three payments, two of them by the same payer to different payees
C26_Witness ==
    /\ pc = "settled"
    /\ Len(transactions) = 3
    /\ \E k, l \in 1..Len(transactions) :
          /\ k # l
          /\ transactions[k].from = transactions[l].from
          /\ transactions[k].to # transactions[l].to

----------------------------------------------------------------------------
(* Properties of getDetailedRawDebts *)

RawDebtsReturned == pc = "done" /\ rawDebts.status = "returned"

\* (expense, debtor share, payer share) index triples that contribute to
\* matrix[d][p]: the expense has a non-zero payer total, the debtor share
\* names d, the payer share names p
Contributions(exps, d, p) ==
    { t \in UNION { {k} \X (1..Len(exps[k].splitAmong)) \X (1..Len(exps[k].paidBy)) :
                      k \in 1..Len(exps) } :
        /\ TotalPaid(exps[t[1]].paidBy) # 0
        /\ exps[t[1]].splitAmong[t[2]].memberId = d
        /\ exps[t[1]].paidBy[t[3]].memberId = p }

\* what the claim gives for matrix[d][p], in 1/MatrixScale thousandths
ExpectedEntry(exps, d, p) ==
    IF d = p THEN 0
    ELSE LET C == Contributions(exps, d, p)
         IN SumOver([t \in C |-> DebtChunk(exps[t[1]].splitAmong[t[2]], exps[t[1]].paidBy[t[3]],
                                           TotalPaid(exps[t[1]].paidBy))], C)

ExpectedMatrix(exps, ms) == [q \in MemberIds(ms) \X MemberIds(ms) |-> ExpectedEntry(exps, q[1], q[2])]

\* the chunks of one debtor share over the payers of its expense add up to
\* the share, and two chunks are in the ratio of the two payer amounts
\* (compared after division by the common grain G of the payer amounts)
RECURSIVE Grain(_)
Grain(shares) == IF shares = <<>> THEN 0 ELSE Gcd(Head(shares).amount, Grain(Tail(shares)))

Proportional(exp) ==
    LET T == TotalPaid(exp.paidBy)
        G == Grain(exp.paidBy)
        chunk(a, b) == DebtChunk(exp.splitAmong[a], exp.paidBy[b], T)
    IN T # 0 =>
         \A a \in 1..Len(exp.splitAmong) :
            /\ SumOver([b \in 1..Len(exp.paidBy) |-> chunk(a, b)], 1..Len(exp.paidBy))
                  = exp.splitAmong[a].amount * MatrixScale
            /\ \A b, c \in 1..Len(exp.paidBy) :
                  chunk(a, b) * (exp.paidBy[c].amount \div G) = chunk(a, c) * (exp.paidBy[b].amount \div G)

\* C19 - Debt matrix construction: matrix[d][p] is the sum, over the
\* expenses with a non-zero payer total and their (debtor share, payer share)
\* pairs naming d and p with d # p, of debtorShare.amount * payerShare.amount
\* / totalPaid; the diagonal stays 0 and an expense with a zero payer total
\* adds nothing; the returned lines are the consolidation of that matrix.
C19_MatrixConstruction ==
    RawDebtsReturned =>
        /\ DebtMatrix(expenses, members).matrix = ExpectedMatrix(expenses, members)
        /\ \A k \in 1..Len(expenses) : Proportional(expenses[k])
        /\ rawDebts.lines = Consolidate(ExpectedMatrix(expenses, members), members)

\* an expense with a zero payer total next to an expense with two payers of
\* different amounts, one of them the debtor
C19_Witness ==
    /\ RawDebtsReturned
    /\ rawDebts.lines # <<>>
    /\ \E k \in 1..Len(expenses) : TotalPaid(expenses[k].paidBy) = 0
    /\ \E k \in 1..Len(expenses) :
          /\ Len(expenses[k].paidBy) = 2
          /\ expenses[k].paidBy[1].amount = 30000
          /\ expenses[k].paidBy[1].memberId = expenses[k].splitAmong[1].memberId

\* what a owes b minus what b owes a, in 1/MatrixScale thousandths
Net(matrix, a, b) == matrix[<<a.id, b.id>>] - matrix[<<b.id, a.id>>]

\* positions of the lines saying that x owes y
LinesSaying(lines, x, y) == { k \in 1..Len(lines) : lines[k][1] = x.name /\ lines[k][3] = y.name }

\* r is Math.round of a positive net: the nearest whole unit, a half upwards
IsRounded(r, net) ==
    LET whole == MatrixScale * Unit
    IN (2 * r - 1) * whole <= 2 * net /\ 2 * net < (2 * r + 1) * whole

\* C15 - Consolidation: for two distinct members a and b with
\* net = matrix[a][b] - matrix[b][a], the output holds exactly one line for
\* the pair, "a owes b round(net)", when net > 0.01 (and so "b owes a
\* round(|net|)" when net < -0.01), and no line for the pair when net is
\* within 0.01 of zero, e.g. for equal opposite debts; 100 owed one way and
\* 30 the other way give the single line "owes 70".
C15_Consolidation ==
    RawDebtsReturned =>
        LET matrix == DebtMatrix(expenses, members).matrix
        IN \A a, b \in Range(members) :
            a.id # b.id =>
                LET net == Net(matrix, a, b)
                    ab == LinesSaying(rawDebts.lines, a, b)
                    ba == LinesSaying(rawDebts.lines, b, a)
                IN /\ net > Tol * MatrixScale =>
                        /\ Cardinality(ab) = 1
                        /\ ba = {}
                        /\ \A k \in ab : IsRounded(rawDebts.lines[k][4], net)
                   /\ (net <= Tol * MatrixScale /\ net >= 0 - Tol * MatrixScale) =>
                        (ab = {} /\ ba = {})
                   /\ (/\ matrix[<<a.id, b.id>>] = 100 * Unit * MatrixScale
                       /\ matrix[<<b.id, a.id>>] = 30 * Unit * MatrixScale) =>
                        (\A k \in ab : rawDebts.lines[k] = DebtLine(a.name, b.name, 70))

\* Ann owes Bob 100 by one expense, Bob owes Ann 30 by the other: the only
\* line returned says that Ann owes Bob 70
C15_Witness ==
    /\ RawDebtsReturned
    /\ DebtMatrix(expenses, members).matrix[<<"A", "B">>] = 100 * Unit * MatrixScale
    /\ DebtMatrix(expenses, members).matrix[<<"B", "A">>] = 30 * Unit * MatrixScale
    /\ rawDebts.lines = <<DebtLine("Ann", "Bob", 70)>>

\* the member list in the order given by the reordering f
Reordered(ms, f) == [k \in 1..Len(ms) |-> ms[f[k]]]

\* unordered pairs of distinct members whose net debt is beyond 0.01
OwingPairs(matrix, ms) ==
    { {q[1], q[2]} : q \in { q \in Range(ms) \X Range(ms) :
                               /\ q[1].id # q[2].id
                               /\ Net(matrix, q[1], q[2]) > Tol * MatrixScale } }

\* C14 - Each unordered pair of distinct members is visited exactly once,
\* whatever the order of the member list: the output never holds two lines
\* for one pair (neither a mirrored nor a duplicate line), so at most
\* n(n-1)/2 lines for n members; every pair whose net debt is non-zero
\* (beyond the 0.01 tolerance) has its line; and the same lines are returned
\* for every order of the members.  Members have distinct display names.
C14_EachPairOnce ==
    RawDebtsReturned =>
        LET owing == OwingPairs(DebtMatrix(expenses, members).matrix, members)
        IN \A f \in Reorderings(Len(members)) :
            LET ms == Reordered(members, f)
                lines == getDetailedRawDebts(expenses, ms).lines
            IN /\ f = [k \in 1..Len(members) |-> k] => lines = rawDebts.lines
               /\ \A a, b \in Range(ms) :
                     a.id # b.id =>
                        Cardinality(LinesSaying(lines, a, b) \cup LinesSaying(lines, b, a)) <= 1
               /\ 2 * Len(lines) <= Len(ms) * (Len(ms) - 1)
               /\ \A pair \in owing : \E a, b \in pair : LinesSaying(lines, a, b) # {}
               /\ Len(lines) = Cardinality(owing)
               /\ Range(lines) = Range(rawDebts.lines)

\* every one of the three pairs has a line: C(3,2) lines are returned
C14_Witness ==
    /\ RawDebtsReturned
    /\ Len(members) = 3
    /\ Len(rawDebts.lines) = 3
    /\ Cardinality(OwingPairs(DebtMatrix(expenses, members).matrix, members)) = 3

\* C24 - every line returned by getDetailedRawDebts shows a whole amount of
\* at least 1.
C24_PositiveDisplayedAmounts ==
    RawDebtsReturned =>
        \A k \in 1..Len(rawDebts.lines) : rawDebts.lines[k][4] >= 1

----------------------------------------------------------------------------
(* Properties of the three functions called in sequence *)

\* total over the other members q of what q owes p minus what p owes q, in
\* 1/MatrixScale thousandths
NetOwedTo(matrix, ms, p) ==
    SumOver([q \in MemberIds(ms) |-> matrix[<<q, p>>] - matrix[<<p, q>>]], MemberIds(ms) \ {p})

\* every share names a member and the payer total equals the debtor total
EvenAmongMembers(exps, ms) ==
    /\ ReferencedIds(exps) \subseteq MemberIds(ms)
    /\ \A e \in Range(exps) : TotalPaid(e.paidBy) = TotalPaid(e.splitAmong)

\* C25 - Raw debts agree with balances: for expenses whose participants are
\* all members and whose payer total equals the debtor total, the debts of
\* the matrix towards a member p minus the debts of p towards the others
\* equal the balance of p returned by calculateBalances.
C25_RawDebtsAgreeWithBalances ==
    (pc = "done" /\ EvenAmongMembers(expenses, members)) =>
        LET st == DebtMatrix(expenses, members)
        IN /\ st.status = "ok"
           /\ rawDebts.lines = Consolidate(st.matrix, members)
           /\ \A p \in MemberIds(members) :
                 NetOwedTo(st.matrix, members, p) = ValueOf(balances, p) * MatrixScale

\* an expense of 130 paid 30 by one member and 100 by another, split among
\* two members, leaves a member with a non-zero balance
C25_Witness ==
    /\ pc = "done"
    /\ \E k \in 1..Len(expenses) :
          /\ Len(expenses[k].paidBy) = 2
          /\ TotalPaid(expenses[k].paidBy) = 130000
          /\ Len(expenses[k].splitAmong) = 2
    /\ \E p \in MemberIds(members) :
          /\ ValueOf(balances, p) # 0
          /\ NetOwedTo(DebtMatrix(expenses, members).matrix, members, p) = ValueOf(balances, p) * MatrixScale

\* display name of the member with the given id
NameOf(ms, id) == (CHOOSE mb \in Range(ms) : mb.id = id).name

\* the payer of a single-payer expense, and its splitters other than the payer
PayerOf(exp) == exp.paidBy[1].memberId
OtherSplitters(exp) ==
    { exp.splitAmong[k].memberId : k \in 1..Len(exp.splitAmong) } \ {PayerOf(exp)}

\* C16 - Single-payer expense: for one expense paid entirely by one member
\* and split with whole-unit shares among a set of members (the payer
\* included or not), calculateBalances gives the payer the total minus the
\* payer's own share and every other splitter minus their share;
\* calculateMinimalTransactions returns exactly one payment per other
\* splitter, from that splitter to the payer, of the splitter's share;
\* getDetailedRawDebts returns exactly one line per other splitter, saying
\* that the splitter owes the payer that share.
C16_SinglePayerExpense ==
    LET exp == expenses[1]
        payer == PayerOf(exp)
        others == OtherSplitters(exp)
        share(id) == ShareTotal(exp.splitAmong, id)
    IN /\ Computed =>
            /\ ValueOf(balances, payer) = exp.paidBy[1].amount - share(payer)
            /\ \A id \in SheetIds(balances) \ {payer} : ValueOf(balances, id) = 0 - share(id)
       /\ Settled =>
            /\ Len(transactions) = Cardinality(others)
            /\ \A id \in others :
                  \E k \in 1..Len(transactions) :
                      transactions[k] = [from |-> id, to |-> payer, amount |-> share(id) \div Unit]
       /\ pc = "done" =>
            /\ rawDebts.status = "returned"
            /\ Len(rawDebts.lines) = Cardinality(others)
            /\ \A id \in others :
                  \E k \in 1..Len(rawDebts.lines) :
                      rawDebts.lines[k] =
                          DebtLine(NameOf(members, id), NameOf(members, payer), share(id) \div Unit)

\* 90 paid by one member and split 30 each among the three members: two
\* payments and two lines, all towards the payer
C16_Witness ==
    /\ pc = "done"
    /\ expenses[1].paidBy[1].amount = 90 * Unit
    /\ Len(expenses[1].splitAmong) = 3
    /\ Len(transactions) = 2
    /\ Len(rawDebts.lines) = 2
    /\ ValueOf(balances, PayerOf(expenses[1])) = 60 * Unit

\* C13 - Zero input: with an empty expense list, calculateBalances returns
\* one entry of value 0 per member and nothing else, and
\* calculateMinimalTransactions on that sheet returns an empty list.
C13_ZeroInput ==
    /\ (Computed /\ expenses = <<>>) =>
          balances = [k \in 1..Len(members) |-> [id |-> members[k].id, amount |-> 0]]
    /\ (Settled /\ expenses = <<>>) =>
          (transactions = <<>> /\ debtors = <<>> /\ creditors = <<>>)

\* no expense, some members, the settlement returned
C13_Witness ==
    /\ pc = "settled"
    /\ expenses = <<>>
    /\ Len(members) = 3
    /\ Len(balances) = 3
    /\ transactions = <<>>

\* C17 - No side effects: no step of the three functions changes the member
\* list or the expense list, and once calculateBalances has returned its
\* sheet no step of calculateMinimalTransactions or getDetailedRawDebts
\* changes it; at the end the arguments still give the same sheet.
C17_NoSideEffects ==
    /\ [][/\ members' = members
          /\ expenses' = expenses
          /\ pc # "input" => balances' = balances]_vars
    /\ [](pc = "done" => balances = calculateBalances(expenses, members))

\* all three functions have returned, the matching loop has written to its
\* own debtor records, and the sheet still holds the balance it was given
C17_Witness ==
    /\ pc = "done"
    /\ transactions # <<>>
    /\ \E k \in 1..Len(debtors) :
          /\ debtors[k].amount # ValueOf(balances, debtors[k].id)
          /\ ValueOf(balances, debtors[k].id) = ValueOf(calculateBalances(expenses, members), debtors[k].id)

----------------------------------------------------------------------------
(* Properties of calculateBalances *)

UnknownIds == ReferencedIds(expenses) \ MemberIds(members)

C4_TotalOnUnknownIds ==
    pc = "done" => rawDebts.status = "returned"

BalancedExpense(e) == TotalPaid(e.paidBy) = TotalPaid(e.splitAmong)

\* C5 - Zero-sum invariant: if in every expense the payer shares and the
\* debtor shares have the same total, the values of the sheet returned by
\* calculateBalances sum to 0.
C5_ZeroSum ==
    (Computed /\ \A e \in Range(expenses) : BalancedExpense(e)) => SheetTotal(balances) = 0

\* a computed sheet with a non-zero balance, from balanced expenses
C5_Witness ==
    /\ pc = "balances"
    /\ expenses # <<>>
    /\ \A e \in Range(expenses) : BalancedExpense(e)
    /\ \E k \in 1..Len(balances) : balances[k].amount # 0

\* C6 - for every member m the returned balance is the total of the paidBy
\* shares naming m minus the total of the splitAmong shares naming m, and
\* every reordering of the expense list gives the same sheet.
C6_BalanceIsPaidMinusOwed ==
    Computed =>
        /\ \A id \in MemberIds(members) :
              ValueOf(balances, id) = PaidTotal(expenses, id) - OwedTotal(expenses, id)
        /\ \A f \in Reorderings(Len(expenses)) :
              SheetMap(calculateBalances([k \in 1..Len(expenses) |-> expenses[f[k]]], members))
                = SheetMap(balances)

\* a computed sheet for two different expenses in which one member both pays
\* and owes
C6_Witness ==
    /\ pc = "balances"
    /\ Len(expenses) >= 2
    /\ expenses[1] # expenses[2]
    /\ \E id \in MemberIds(members) :
          PaidTotal(expenses, id) > 0 /\ OwedTotal(expenses, id) > 0

\* C7 - the returned sheet has an entry for every member, and a member named
\* by no share has balance exactly 0.
C7_EveryMemberHasEntry ==
    Computed =>
        \A id \in MemberIds(members) :
            /\ \E k \in 1..Len(balances) : balances[k].id = id
            /\ id \notin ReferencedIds(expenses) =>
                  \A k \in 1..Len(balances) : balances[k].id = id => balances[k].amount = 0

\* a computed sheet for a non-empty expense list that leaves a member out
C7_Witness ==
    /\ pc = "balances"
    /\ expenses # <<>>
    /\ \E id \in MemberIds(members) : id \notin ReferencedIds(expenses)

----------------------------------------------------------------------------
(* Properties of the App handlers *)

\* some device other than this one is bound to the member
BoundToAnotherDevice(memberId) ==
    \E k \in 1..Len(group.deviceBindings) :
        /\ group.deviceBindings[k].value = memberId
        /\ group.deviceBindings[k].key # deviceId

\* C30: no member is bound to two different device ids, whatever devices
\* bind and whatever members are deleted; when handleBindIdentity is called
\* for a member that another device is bound to, deviceBindings is unchanged.
C30_BindingInjective ==
    /\ [](\A k, l \in 1..Len(group.deviceBindings) :
             (group.deviceBindings[k].value = group.deviceBindings[l].value) => k = l)
    /\ [][\A sel \in 1..MaxIds :
             (handleBindIdentity(sel) /\ BoundToAnotherDevice(sel))
                 => group'.deviceBindings = group.deviceBindings]_vars
    /\ [][\A sel \in 1..MaxIds :
             (handleBindIdentity(sel) /\ ~BoundToAnotherDevice(sel))
                 => BindingOf(group'.deviceBindings, deviceId) = sel]_vars

\* two devices are bound, to two members, after a bound member was deleted:
\* a bind attempt of this device for the other device's member is refused
C30_Witness ==
    /\ Len(group.deviceBindings) = 2
    /\ BoundToAnotherDevice(group.deviceBindings[1].value)
    /\ generated > Len(group.members)
    /\ BoundMembers(group.deviceBindings) \subseteq IdsOf(group.members)

\* the member ids named by a list of SplitDetail
NamedIn(shares) == { shares[k].memberId : k \in 1..Len(shares) }
\* the expense e, a split of which names memberId, is in g without that
\* member: same payers and total, the other splitters in their order, each
\* with an equal part of the total
SplitAgainWithout(g, e, memberId) ==
    \E k \in 1..Len(g.expenses) :
        LET after == g.expenses[k]
            NotDeleted(s) == s.memberId # memberId
        IN /\ after.id = e.id
           /\ after.paidBy = e.paidBy
           /\ after.totalAmount = e.totalAmount
           /\ [n \in 1..Len(after.splitAmong) |-> after.splitAmong[n].memberId]
                = [n \in 1..Len(SelectSeq(e.splitAmong, NotDeleted)) |->
                      SelectSeq(e.splitAmong, NotDeleted)[n].memberId]
           /\ \A n \in 1..Len(after.splitAmong) :
                 after.splitAmong[n].amount * Len(after.splitAmong) = e.totalAmount

Active(g) == { g.expenses[k].id : k \in 1..Len(g.expenses) }
Archived(g) == UNION { { h.expenses[k].id : k \in 1..Len(h.expenses) } : h \in Range(g.history) }

\* C27: whatever the interleaving of handleSaveExpense and handleClearAllDebt,
\* an expense that was saved to the group stays in it, among the active
\* expenses or in a history record: no step takes an expense out of both,
\* and the expense a step saves is in one of them.
C27_ArchivingLosesNoExpense ==
    [][/\ Active(group) \cup Archived(group) \subseteq Active(group') \cup Archived(group')
       /\ \A form \in QuickForms :
             (handleSaveExpense(form) /\ Accepted(form))
                 => ExpensePayload(form).id \in Active(group') \cup Archived(group')]_vars

\* C29: whatever members clear their debt in a settlement session, the
\* settlementPlan of the session's history record holds each transaction of
\* the computed settlement at most once.
C29_PlanWithoutDuplicates ==
    \A h \in Range(group.history) :
        \A k, l \in 1..Len(h.settlementPlan) :
            (h.settlementPlan[k] = h.settlementPlan[l]) => k = l

====
